---- MODULE Spec2Model ----
(***************************************************************************)
(* netsed 1.00b (src/netsed.c): the rule parser of main(),                 *)
(* shrink_to_binary(), the rule engine sed_the_buffer() and the handlers   *)
(* that run it on the chunks of a connection.                              *)
(*                                                                         *)
(* A C character is a one-character string ("s", "/", "%"); NUL is the     *)
(* string "NUL".  A byte of a pattern or of a packet is its value 0..255.  *)
(* A C string is the sequence of its characters without the final NUL.     *)
(***************************************************************************)
EXTENDS Integers, Sequences, FiniteSets, TLC

(***************************************************************************)
(* Bounds of the model.                                                    *)
(***************************************************************************)
\* sizeof(buf) = sizeof(b2): MAX_BUF of src/netsed.c:103 (100000), scaled down
MAX_BUF == 2
\* chunks read over the whole run
MaxReads == 2
\* connections accepted over the whole run
MaxConn == 2
\* longest pattern text the parser specification draws
MaxPatLen == 3

(***************************************************************************)
(* Characters.                                                             *)
(***************************************************************************)
NUL == "NUL"

\* the value of each character the model uses (ASCII)
ord ==
  [c \in {"%"} |-> 37] @@ [c \in {" "} |-> 32] @@ [c \in {"+"} |-> 43]
  @@ [c \in {"-"} |-> 45] @@ [c \in {"/"} |-> 47]
  @@ ("0" :> 48) @@ ("1" :> 49) @@ ("2" :> 50) @@ ("3" :> 51) @@ ("4" :> 52)
  @@ ("5" :> 53) @@ ("6" :> 54) @@ ("7" :> 55) @@ ("8" :> 56) @@ ("9" :> 57)
  @@ ("A" :> 65) @@ ("B" :> 66) @@ ("C" :> 67) @@ ("D" :> 68) @@ ("E" :> 69)
  @@ ("F" :> 70) @@ ("G" :> 71)
  @@ ("a" :> 97) @@ ("b" :> 98) @@ ("c" :> 99) @@ ("d" :> 100) @@ ("e" :> 101)
  @@ ("f" :> 102) @@ ("g" :> 103) @@ ("s" :> 115) @@ ("x" :> 120) @@ ("y" :> 121)

Chars == DOMAIN ord

\* char hex[]="0123456789ABCDEF"
hex == <<"0","1","2","3","4","5","6","7","8","9","A","B","C","D","E","F">>

\* toupper() in the C locale
toupper(c) ==
  IF c \in Chars /\ ord[c] >= ord["a"] /\ ord[c] <= ord["a"] + 25
  THEN CHOOSE u \in Chars : ord[u] = ord[c] - (ord["a"] - ord["A"])
  ELSE c

\* strchr(hex, c) for c # NUL: the offset x-hex of the first c in hex, -1 for NULL
strchr_hex(c) ==
  IF \E k \in 1..Len(hex) : hex[k] = c
  THEN (CHOOSE k \in 1..Len(hex) : hex[k] = c /\ \A m \in 1..(k-1) : hex[m] # c) - 1
  ELSE -1

\* s[k] of a C string, 0-based: the terminating NUL at k = strlen(s)
At(s, k) == IF k < Len(s) THEN s[k+1] ELSE NUL

\* strchr(s + from, '/'): the 0-based index of the first '/' at or after from, -1 for NULL
strchr_slash(s, from) ==
  IF \E k \in from..(Len(s)-1) : At(s, k) = "/"
  THEN CHOOSE k \in from..(Len(s)-1) :
         At(s, k) = "/" /\ \A m \in from..(k-1) : At(s, m) # "/"
  ELSE -1

\* the C string s[a..b-1]
Sub(s, a, b) == IF b <= a THEN <<>> ELSE SubSeq(s, a+1, b)

(***************************************************************************)
(* atoi(): optional white space, an optional sign, then decimal digits up  *)
(* to the first character that is none.                                    *)
(***************************************************************************)
isdigit(c) == c \in Chars /\ ord[c] >= ord["0"] /\ ord[c] <= ord["9"]

RECURSIVE atoi_digits(_, _, _)
atoi_digits(s, k, acc) ==
  IF isdigit(At(s, k))
  THEN atoi_digits(s, k+1, acc * 10 + (ord[At(s, k)] - ord["0"]))
  ELSE acc

RECURSIVE atoi_from(_, _)
atoi_from(s, k) ==
  IF At(s, k) = " " THEN atoi_from(s, k+1)
  ELSE IF At(s, k) = "-" THEN 0 - atoi_digits(s, k+1, 0)
  ELSE IF At(s, k) = "+" THEN atoi_digits(s, k+1, 0)
  ELSE atoi_digits(s, k, 0)

atoi(s) == atoi_from(s, 0)

(***************************************************************************)
(* shrink_to_binary(): one of its two loops, on the pattern text s.  n0 is *)
(* the value r->fs (r->ts) holds on entry; the buffer is malloc(strlen(s)) *)
(* bytes, so a write at index n is inside it iff n < strlen(s).  The       *)
(* result: st is "ok", "error" (error() was called) or "ub" (a write       *)
(* outside the buffer); bytes are the bytes written, n the final length.   *)
(***************************************************************************)
RECURSIVE shrink_loop(_, _, _, _)
shrink_loop(s, i, bytes, n) ==
  IF ~(i < Len(s)) THEN [st |-> "ok", bytes |-> bytes, n |-> n]
  ELSE IF At(s, i) = "%"
  THEN IF At(s, i+1) = "%"
       THEN IF n < Len(s)
            THEN shrink_loop(s, i+2, Append(bytes, ord["%"]), n+1)
            ELSE [st |-> "ub", bytes |-> bytes, n |-> n]
       ELSE IF At(s, i+1) = NUL \/ At(s, i+2) = NUL
            THEN [st |-> "error", bytes |-> bytes, n |-> n]
       ELSE IF strchr_hex(toupper(At(s, i+1))) < 0
               \/ strchr_hex(toupper(At(s, i+2))) < 0
            THEN [st |-> "error", bytes |-> bytes, n |-> n]
       ELSE IF n < Len(s)
            THEN shrink_loop(s, i+3,
                             Append(bytes, strchr_hex(toupper(At(s, i+1))) * 16
                                           + strchr_hex(toupper(At(s, i+2)))),
                             n+1)
            ELSE [st |-> "ub", bytes |-> bytes, n |-> n]
  ELSE IF n < Len(s)
       THEN shrink_loop(s, i+1, Append(bytes, ord[At(s, i)]), n+1)
       ELSE [st |-> "ub", bytes |-> bytes, n |-> n]

\* the values an int of the malloc()ed rule array can hold before it is assigned:
\* 0 (fresh pages) or whatever the heap held (here the value seen with glibc when
\* stdout is a pipe)
UninitInts == {0, 1933602405}

\* shrink_to_binary(r): the source loop, then the destination loop
shrink_to_binary(forig, torig, fs0, ts0) ==
  LET f == shrink_loop(forig, 0, <<>>, fs0)
  IN  IF f.st # "ok"
      THEN [st |-> f.st, from |-> f.bytes, fs |-> f.n, to |-> <<>>, ts |-> ts0]
      ELSE LET t == shrink_loop(torig, 0, <<>>, ts0)
           IN  [st |-> t.st, from |-> f.bytes, fs |-> f.n,
                to |-> t.bytes, ts |-> t.n]

(***************************************************************************)
(* The body of the rule loop of main() on one argument.                    *)
(***************************************************************************)
\* a parser that takes every count that is not positive for "unlimited"
count_to_live_nonpositive(present, cs) ==
  IF present /\ cs # <<>> /\ atoi(cs) > 0 THEN atoi(cs) ELSE -1

\* lines 614-615: rule_live[rules], from cs (present: cs is not NULL)
count_to_live(present, cs) == IF present /\ cs # <<>> THEN atoi(cs) ELSE -1

\* st: "ok", "error" (exit 2) or "ub"; live: rule_live[rules] when it was assigned
parse_rule(arg, fs0, ts0) ==
  LET s1 == strchr_slash(arg, 0)
      fsP == s1 + 1
      s2 == strchr_slash(arg, fsP)
      tsP == s2 + 1
      s3 == strchr_slash(arg, tsP)
      forig == Sub(arg, fsP, s2)
      torig == IF s3 < 0 THEN Sub(arg, tsP, Len(arg)) ELSE Sub(arg, tsP, s3)
      cs == IF s3 < 0 THEN <<>> ELSE Sub(arg, s3+1, Len(arg))
      live == count_to_live(s3 >= 0, cs)
      r == shrink_to_binary(forig, torig, fs0, ts0)
  IN  IF s1 < 0 \/ s2 < 0
      THEN [st |-> "error", assigned |-> FALSE, live |-> 0,
            from |-> <<>>, to |-> <<>>, fs |-> fs0, ts |-> ts0]
      ELSE [st |-> r.st, assigned |-> TRUE, live |-> live,
            from |-> r.from, to |-> r.to, fs |-> r.fs, ts |-> r.ts]

(***************************************************************************)
(* The program state.                                                      *)
(***************************************************************************)
VARIABLES
  pc,         \* where main() is: "parse", "idle" (in select), "sed" (inside
              \* sed_the_buffer), "send" (sed_the_buffer returned), "exit2"
              \* (error() called exit(2)), "ub" (undefined behaviour happened:
              \* the process was killed or its memory is corrupt)
  argv,       \* argv[5..argc-1]: the rule arguments
  rules,      \* int rules
  rule,       \* struct rule_s *rule: from, to, fs, ts of each slot written
  rule_live,  \* int *rule_live
  conns,      \* the tracker entries: live is tracker_s::live
  buf,        \* char buf[MAX_BUF]
  siz,        \* sed_the_buffer's siz
  i,          \* sed_the_buffer's i
  newsize,    \* sed_the_buffer's newsize
  changes,    \* sed_the_buffer's changes
  b2,         \* b2[0..newsize-1]
  cur,        \* the connection whose handler runs
  dir,        \* "c2s": client2server_sed, "s2c": server2client_sed
  nreads,     \* chunks read so far (bounds the run)
  live0,      \* history: conn->live when sed_the_buffer was entered
  outside,    \* history: a memcmp of this call of sed_the_buffer read past the
              \* end of buf
  applied,    \* history: applied[c][d][j], the times rule j was applied on
              \* connection c in direction d
  sent,       \* history: the bytes of the last packet written to a peer
  sentChanges, \* history: the replacements sed_the_buffer made in that packet
  \* the dispatcher (main's select loop); there pc is "while" (the loop test),
  \* "build" (test passed, select not yet entered), "select" (blocked in
  \* select), "listener" (lines 727-833), "walk" (lines 835-861),
  \* "blocked_listener" (inside a connect() that has not returned),
  \* "blocked_walk" (inside a write() or sendto() that has not returned),
  \* "clean" (loop left), "exit0" or "exit2"
  tcp,         \* int tcp
  fixedhost,   \* fixedhost (0: ss_family is 0, no fixed host)
  fixedport,   \* fixedport (0: none)
  connections, \* the tracker list, head first
  stop,        \* volatile int stop
  intr,        \* a signal handler ran while select was blocked (EINTR)
  rd_set,      \* fd_set rd_set as select left it
  readable,    \* environment: the forwarding sockets with something to read
  pending,     \* environment: the peer address of what waits on the listening
               \* socket (0: nothing waits)
  nextfd,      \* the next descriptor socket() or accept() returns
  open,        \* the open sockets
  widx,        \* conn of the walk (position in the list)
  nincoming,   \* connections and datagrams that came in so far (bounds the run)
  hist         \* history: what the last step did, and whether a connect has
               \* failed so far

vars == <<pc, argv, rules, rule, rule_live, conns, buf, siz, i, newsize,
          changes, b2, cur, dir, nreads, live0, outside, applied, sent, sentChanges,
          tcp, fixedhost, fixedport, connections, stop, intr, rd_set, readable,
          pending, nextfd, open, widx, nincoming, hist>>

\* no address
NoAddr == [host |-> 0, port |-> 0]

\* hist before anything happened.  listen: what the listener branch just did
\* ("error": accept or recvfrom failed, "found": the datagram belongs to an
\* entry, "ok" / "fail": a new flow and what connect returned); orig, peer:
\* the new flow's destination and the address connect was called with; wrote:
\* the step wrote bytes to a socket; swept: the step unlinked an entry;
\* failed: a connect has failed so far; c2s, s2c: what read() returned in the
\* handlers of the entry just visited ("none": the handler did not run);
\* dead: the entry was or became DISCONNECTED during the visit; timedout: the
\* visit set it to TIMEOUT; sends: the payloads the step passed on, each with
\* the peer it was read from and the peer it was written to
NoHist ==
  [listen |-> "none", wrote |-> FALSE, swept |-> FALSE, failed |-> FALSE,
   orig |-> NoAddr, peer |-> NoAddr, c2s |-> "none", s2c |-> "none",
   dead |-> FALSE, timedout |-> FALSE, sends |-> {}]

parseVars == <<argv, rules, rule, rule_live>>
sedVars == <<buf, siz, i, newsize, changes, b2, cur, dir, live0, outside>>
loopVars == <<tcp, fixedhost, fixedport, connections, stop, intr, rd_set, readable,
              pending, nextfd, open, widx, nincoming, hist>>

Dirs == {"c2s", "s2c"}

\* the bytes a peer sends
ChunkBytes == {ord["a"], ord["b"]}

\* the chunks read() can return: 1..MAX_BUF bytes
Chunks == UNION {[1..n -> ChunkBytes] : n \in 1..MAX_BUF}

(***************************************************************************)
(* The command lines of the main specification.                            *)
(***************************************************************************)
ArgvPool ==
  { << <<"s","/","a","b","/","x","/","1">> >>,
    << <<"s","/","a","/","x","/","2">> >>,
    << <<"s","/","a","/","x">>, <<"s","/","a","b","/","y">> >>,
    << <<"s","/","a","b","/","y">>, <<"s","/","a","/","x">> >>,
    << <<"s","/","a","/","b">>, <<"s","/","b","/","a">> >>,
    << <<"s","/","a","/","x","/","0">>, <<"s","/","a","/","b","/","1">> >>,
    << <<"s","/","/","x","/","1">> >>,
    << <<"s","/","a","/","b","b">> >>,
    << <<"s","/","%","6","1","/","%","6","2">> >> }

InitRest ==
  /\ pc = "parse"
  /\ rules = 0
  /\ rule = <<>>
  /\ rule_live = <<>>
  /\ conns = <<>>
  /\ buf = [k \in 1..MAX_BUF |-> 0]
  /\ siz = 0
  /\ i = 0
  /\ newsize = 0
  /\ changes = 0
  /\ b2 = <<>>
  /\ cur = 0
  /\ dir = "c2s"
  /\ nreads = 0
  /\ live0 = <<>>
  /\ outside = FALSE
  /\ applied = <<>>
  /\ sent = <<>>
  /\ sentChanges = 0
  /\ tcp = TRUE
  /\ fixedhost = 0
  /\ fixedport = 0
  /\ connections = <<>>
  /\ stop = 0
  /\ intr = FALSE
  /\ rd_set = {}
  /\ readable = {}
  /\ pending = 0
  /\ nextfd = 1
  /\ open = {}
  /\ widx = 0
  /\ nincoming = 0
  /\ hist = NoHist

Init == argv \in ArgvPool /\ InitRest

(***************************************************************************)
(* main(): one pass of the rule loop (lines 600-619).                      *)
(***************************************************************************)
ParseRule ==
  /\ pc = "parse"
  /\ rules < Len(argv)
  /\ \E fs0 \in UninitInts, ts0 \in UninitInts :
     \E r \in {parse_rule(argv[rules+1], fs0, ts0)} :
       LET slot == [from |-> r.from, to |-> r.to, fs |-> r.fs, ts |-> r.ts]
       IN  /\ rule_live' = IF r.assigned THEN Append(rule_live, r.live)
                           ELSE rule_live
           /\ rule' = IF r.assigned THEN Append(rule, slot) ELSE rule
           /\ rules' = IF r.st = "ok" THEN rules + 1 ELSE rules
           /\ pc' = IF r.st = "error" THEN "exit2"
                    ELSE IF r.st = "ub" THEN "ub"
                    ELSE IF rules + 1 = Len(argv) THEN "idle" ELSE "parse"
  /\ UNCHANGED <<argv, conns, nreads, applied, sent, sentChanges>>
  /\ UNCHANGED loopVars
  /\ UNCHANGED sedVars

(***************************************************************************)
(* main(): a new connection (lines 761-827), as far as the rule engine     *)
(* sees it: the tracker entry gets its own copy of rule_live.              *)
(***************************************************************************)
\* a tracker whose entries share one array of counts: the new entry sees what
\* the entry before it has left
tracker_live_shared ==
  IF conns = <<>> THEN SubSeq(rule_live, 1, rules) ELSE conns[Len(conns)].live

\* lines 784-786: conn->live, a fresh array with a copy of rule_live
tracker_live == SubSeq(rule_live, 1, rules)

NewConnection ==
  /\ pc = "idle"
  /\ Len(conns) < MaxConn
  /\ conns' = Append(conns, [live |-> tracker_live])
  /\ applied' = Append(applied, [d \in Dirs |-> [j \in 1..rules |-> 0]])
  /\ UNCHANGED <<pc, nreads, sent, sentChanges>>
  /\ UNCHANGED loopVars
  /\ UNCHANGED parseVars
  /\ UNCHANGED sedVars

(***************************************************************************)
(* read(fd, buf, sizeof(buf)) returning rd > 0, and the entry of           *)
(* sed_the_buffer(rd, conn->live).  The bytes of buf past rd keep what     *)
(* earlier chunks left there.                                              *)
(***************************************************************************)
ReadInto(c, d, chunk) ==
  /\ pc = "idle"
  /\ nreads < MaxReads
  /\ c \in 1..Len(conns)
  /\ buf' = [k \in 1..MAX_BUF |-> IF k <= Len(chunk) THEN chunk[k] ELSE buf[k]]
  /\ siz' = Len(chunk)
  /\ i' = 0
  /\ newsize' = 0
  /\ changes' = 0
  /\ b2' = <<>>
  /\ cur' = c
  /\ dir' = d
  /\ live0' = conns[c].live
  /\ outside' = FALSE
  /\ nreads' = nreads + 1
  /\ pc' = "sed"
  /\ UNCHANGED <<conns, applied, sent, sentChanges>>
  /\ UNCHANGED loopVars
  /\ UNCHANGED parseVars

\* client2server_sed (lines 542-556) up to the call of sed_the_buffer
client2server_sed == \E c \in 1..MaxConn, chunk \in Chunks : ReadInto(c, "c2s", chunk)

\* server2client_sed (lines 515-530) up to the call of sed_the_buffer
server2client_sed == \E c \in 1..MaxConn, chunk \in Chunks : ReadInto(c, "s2c", chunk)

(***************************************************************************)
(* sed_the_buffer(): one pass of its outer loop (lines 475-500).           *)
(***************************************************************************)
\* memcmp(&buf[i], rule[j].from, rule[j].fs) == 0.  The bytes compared lie at
\* buf[i..i+fs-1], whatever siz is; those past the end of buf are outside the
\* object, and oob[j] is what comparing them gives.
memcmp_eq(j, oob) ==
  /\ \A k \in 0..(rule[j].fs - 1) :
       i + k < MAX_BUF => buf[i+k+1] = rule[j].from[k+1]
  /\ (i + rule[j].fs > MAX_BUF => oob[j])

\* an engine that never looks at the live count
rule_active_always(v) == TRUE

\* line 478: live[j]!=0
rule_active(v) == v # 0

\* an engine that forgets to count an application
live_dec_forgotten(v) == v

\* line 482: live[j]--
live_dec(v) == v - 1

\* an engine that skips the bytes no rule matches
copy_byte_skipped(out, byte) == out

\* line 491: b2[newsize]=buf[i], on the bytes written so far
copy_byte(out, byte) == Append(out, byte)

\* the inner loop: the rule the pass applies, 0 when none matches, -1 when a rule
\* is compared whose fs was never assigned from its pattern (more than the bytes
\* written to from)
RECURSIVE scan(_, _, _)
scan(j, live, oob) ==
  IF ~(j <= rules) THEN 0
  ELSE IF rule[j].fs > Len(rule[j].from) THEN -1
  ELSE IF memcmp_eq(j, oob) /\ rule_active(live[j]) THEN j
  ELSE scan(j+1, live, oob)

\* what the comparisons past the end of buf can give
OobOutcomes ==
  {f \in [1..rules -> BOOLEAN] : \A j \in 1..rules : f[j] => i + rule[j].fs > MAX_BUF}

SedStep ==
  /\ pc = "sed"
  /\ \E oob \in OobOutcomes :
       LET live == conns[cur].live
           j == scan(1, live, oob)
       IN  IF j < 0
           THEN /\ pc' = "ub"
                /\ UNCHANGED <<conns, applied, i, newsize, changes, b2>>
           ELSE IF j > 0
           THEN /\ changes' = changes + 1
                /\ conns' = [conns EXCEPT ![cur].live[j] = live_dec(@)]
                /\ applied' = [applied EXCEPT ![cur][dir][j] = @ + 1]
                /\ IF newsize + rule[j].ts > MAX_BUF
                   THEN /\ pc' = "ub"
                        /\ UNCHANGED <<i, newsize, b2>>
                   ELSE /\ b2' = b2 \o rule[j].to
                        /\ newsize' = newsize + rule[j].ts
                        /\ i' = i + rule[j].fs
                        /\ pc' = IF i' < siz THEN "sed" ELSE "send"
           ELSE /\ UNCHANGED <<conns, applied, changes>>
                /\ IF newsize >= MAX_BUF
                   THEN /\ pc' = "ub"
                        /\ UNCHANGED <<i, newsize, b2>>
                   ELSE /\ b2' = copy_byte(b2, buf[i+1])
                        /\ newsize' = newsize + 1
                        /\ i' = i + 1
                        /\ pc' = IF i' < siz THEN "sed" ELSE "send"
  /\ outside' = (outside \/ \E j \in 1..rules : i + rule[j].fs > MAX_BUF)
  /\ UNCHANGED <<buf, siz, cur, dir, live0, nreads, sent, sentChanges>>
  /\ UNCHANGED loopVars
  /\ UNCHANGED parseVars

(***************************************************************************)
(* The handlers after sed_the_buffer returned: the write to the peer.      *)
(***************************************************************************)
\* the handler returns: its locals and those of sed_the_buffer are gone
Return ==
  /\ siz' = 0
  /\ i' = 0
  /\ newsize' = 0
  /\ changes' = 0
  /\ b2' = <<>>
  /\ cur' = 0
  /\ dir' = "c2s"
  /\ live0' = <<>>
  /\ outside' = FALSE

\* b2server_sed (lines 565-569): write(conn->fsock, b2, rd)
b2server_sed ==
  /\ pc = "send"
  /\ dir = "c2s"
  /\ sent' = b2
  /\ sentChanges' = changes
  /\ pc' = "idle"
  /\ Return
  /\ UNCHANGED <<conns, applied, nreads, buf>>
  /\ UNCHANGED loopVars
  /\ UNCHANGED parseVars

\* server2client_sed (lines 531-536): sendto(conn->csock, b2, rd, ...)
server2client_send ==
  /\ pc = "send"
  /\ dir = "s2c"
  /\ sent' = b2
  /\ sentChanges' = changes
  /\ pc' = "idle"
  /\ Return
  /\ UNCHANGED <<conns, applied, nreads, buf>>
  /\ UNCHANGED loopVars
  /\ UNCHANGED parseVars

Next ==
  \/ ParseRule
  \/ NewConnection
  \/ client2server_sed
  \/ server2client_sed
  \/ SedStep
  \/ b2server_sed
  \/ server2client_send

Spec == Init /\ [][Next]_vars

(***************************************************************************)
(* The parser alone, on one rule argument drawn from a wide set of texts.  *)
(***************************************************************************)
\* a plain letter that is also a lower-case hex digit, an upper-case hex digit,
\* a decimal digit, a letter that is no hex digit, and the escape character
PatChars == {"a", "F", "4", "g", "%"}

HexChars == {hex[k] : k \in 1..Len(hex)} \cup {"a", "b", "c", "d", "e", "f"}

\* the C strings over cs of length at most n
Texts(cs, n) == UNION {[1..m -> cs] : m \in 0..n}

\* every %XX escape
HexEscapes == {<<"%", h1, h2>> : h1 \in HexChars, h2 \in HexChars}

PatTexts == Texts(PatChars, MaxPatLen) \cup HexEscapes

\* the pattern on the other side of the rule
FixedPats == {<<>>, <<"a">>, <<"%", "4", "1">>}

\* the text after a third '/'
CountTexts ==
  { <<>>, <<"0">>, <<"1">>, <<"2">>, <<"1","2">>, <<"0","7">>, <<"-","1">>,
    <<"-","3">>, <<"-","0">>, <<"-">>, <<"+","2">>, <<" ","7">>, <<"x">>,
    <<"1","x">> }

\* what stands before the first '/'
Prefixes == {<<"s">>, <<"x">>}

ParseArgs ==
  LET pairs == (PatTexts \X FixedPats) \cup (FixedPats \X PatTexts)
      three == {pre \o <<"/">> \o pr[1] \o <<"/">> \o pr[2] :
                  pre \in Prefixes, pr \in pairs}
      four == {t \o <<"/">> \o c : t \in three, c \in CountTexts}
      short == Prefixes \cup {pre \o <<"/">> \o f : pre \in Prefixes, f \in FixedPats}
  IN  three \cup four \cup short

InitParse == argv \in {<<a>> : a \in ParseArgs} /\ InitRest

NextParse == ParseRule

SpecParse == InitParse /\ [][NextParse]_vars

(***************************************************************************)
(* Vocabulary of the properties.                                           *)
(***************************************************************************)
\* the chunk sed_the_buffer was called on: the first siz bytes of buf
chunk == SubSeq(buf, 1, siz)

\* the live counts of the connection whose handler runs
curLive == conns[cur].live

\* rule j's lengths are those of its patterns
WellFormed(j) == rule[j].fs = Len(rule[j].from) /\ rule[j].ts = Len(rule[j].to)

\* rule j's from stands in the chunk at cursor p (0-based)
FromAt(j, p) ==
  /\ p + Len(rule[j].from) <= siz
  /\ \A k \in 1..Len(rule[j].from) : buf[p+k] = rule[j].from[k]

\* the least element of a non-empty set of rule indexes
Lowest(M) == CHOOSE j \in M : \A m \in M : j <= m

\* a pass of sed_the_buffer's loop none of whose comparisons leaves buf
InsideBuf == \A j \in 1..rules : WellFormed(j) /\ i + rule[j].fs <= MAX_BUF

\* the times rule j was applied on connection c, both directions together
Applied(c, j) == applied[c]["c2s"][j] + applied[c]["s2c"][j]

(***************************************************************************)
(* C1.  Greedy left-to-right substitution: at every cursor position the    *)
(* rule applied is the lowest-indexed rule with a non-zero live count      *)
(* whose from equals the input at the cursor; with no such rule exactly    *)
(* one input byte is copied; the output is the concatenation of these      *)
(* pieces.  Stated for the passes whose comparisons stay inside buf and    *)
(* whose writes stay inside b2.                                            *)
(***************************************************************************)
C1_ClaimedPass ==
  LET M == {j \in 1..rules : curLive[j] # 0 /\ FromAt(j, i)}
  IN  IF M = {}
      THEN /\ i' = i + 1
           /\ b2' = Append(b2, buf[i+1])
           /\ conns' = conns
      ELSE /\ i' = i + Len(rule[Lowest(M)].from)
           /\ b2' = b2 \o rule[Lowest(M)].to
           /\ applied' = [applied EXCEPT ![cur][dir][Lowest(M)] = @ + 1]

C1_Original == [][(pc = "sed" /\ InsideBuf /\ pc' # "ub") => C1_ClaimedPass]_vars

(***************************************************************************)
(* C2.  A rule with a positive initial count N is applied at most N times  *)
(* on a connection, over all chunks and both directions; its live count    *)
(* stays in 0..N and is N minus the number of applications so far.         *)
(***************************************************************************)
C2_CountBounded ==
  \A c \in 1..Len(conns) : \A j \in 1..rules :
    rule_live[j] > 0 =>
      /\ Applied(c, j) <= rule_live[j]
      /\ conns[c].live[j] \in 0..rule_live[j]
      /\ conns[c].live[j] = rule_live[j] - Applied(c, j)

\* a rule with count 2 was applied once in each direction and is now expired
C2_Witness ==
  \E c \in 1..Len(conns) : \E j \in 1..rules :
    /\ rule_live[j] = 2
    /\ applied[c]["c2s"][j] = 1
    /\ applied[c]["s2c"][j] = 1
    /\ conns[c].live[j] = 0

(***************************************************************************)
(* C3.  A single rule s/X/Y/N (N > 0) with a fresh live count N, on a      *)
(* chunk with k disjoint occurrences of X: the output has the leftmost     *)
(* min(k, N) occurrences replaced and the rest of the chunk unchanged, and *)
(* the live count is N - min(k, N).                                        *)
(***************************************************************************)
\* X stands in c at p (0-based)
OccursAt(c, X, p) ==
  p + Len(X) <= Len(c) /\ \A k \in 1..Len(X) : c[p+k] = X[k]

\* the disjoint occurrences of X in c from p on, counted from the left
RECURSIVE Occurrences(_, _, _)
Occurrences(c, X, p) ==
  IF p >= Len(c) THEN 0
  ELSE IF OccursAt(c, X, p) THEN 1 + Occurrences(c, X, p + Len(X))
  ELSE Occurrences(c, X, p + 1)

\* c from p on with its n leftmost occurrences of X replaced by Y
RECURSIVE Replaced(_, _, _, _, _)
Replaced(c, X, Y, p, n) ==
  IF p >= Len(c) THEN <<>>
  ELSE IF n > 0 /\ OccursAt(c, X, p) THEN Y \o Replaced(c, X, Y, p + Len(X), n - 1)
  ELSE <<c[p+1]>> \o Replaced(c, X, Y, p + 1, n)

Min(a, b) == IF a <= b THEN a ELSE b

C3_Original ==
  (/\ pc = "send"
   /\ ~outside
   /\ rules = 1
   /\ WellFormed(1)
   /\ Len(rule[1].from) >= 1
   /\ rule_live[1] > 0
   /\ live0[1] = rule_live[1])
  => LET k == Occurrences(chunk, rule[1].from, 0)
         N == rule_live[1]
     IN  /\ b2 = Replaced(chunk, rule[1].from, rule[1].to, 0, Min(k, N))
         /\ curLive[1] = N - Min(k, N)

(***************************************************************************)
(* C4.  Applying a rule whose live count is -1 leaves it at -1: after any  *)
(* number of applications an unlimited rule's live count is still -1.      *)
(***************************************************************************)
C4_Original ==
  \A c \in 1..Len(conns) : \A j \in 1..rules :
    rule_live[j] = -1 => conns[c].live[j] = -1

(***************************************************************************)
(* The text of a rule argument, read off its '/' characters.               *)
(***************************************************************************)
SlashPos(arg) == {k \in 1..Len(arg) : arg[k] = "/"}

\* the position of the n-th '/' of arg
NthSlash(arg, n) ==
  CHOOSE k \in SlashPos(arg) : Cardinality({m \in SlashPos(arg) : m < k}) = n - 1

\* the argument has a count field, and its text
HasCount(arg) == Cardinality(SlashPos(arg)) >= 3
CountText(arg) == SubSeq(arg, NthSlash(arg, 3) + 1, Len(arg))

\* the source and destination pattern texts of an argument with two '/' or more
FromText(arg) == SubSeq(arg, NthSlash(arg, 1) + 1, NthSlash(arg, 2) - 1)
ToText(arg) ==
  SubSeq(arg, NthSlash(arg, 2) + 1,
         IF HasCount(arg) THEN NthSlash(arg, 3) - 1 ELSE Len(arg))

DigitOf ==
  ("0" :> 0) @@ ("1" :> 1) @@ ("2" :> 2) @@ ("3" :> 3) @@ ("4" :> 4)
  @@ ("5" :> 5) @@ ("6" :> 6) @@ ("7" :> 7) @@ ("8" :> 8) @@ ("9" :> 9)

\* t is a decimal numeral without sign, and its value
IsDecimal(t) == t # <<>> /\ \A k \in 1..Len(t) : t[k] \in DOMAIN DigitOf

RECURSIVE DecimalValue(_)
DecimalValue(t) ==
  IF t = <<>> THEN 0
  ELSE 10 * DecimalValue(SubSeq(t, 1, Len(t) - 1)) + DigitOf[t[Len(t)]]

\* t is a '-' followed by a decimal numeral
IsNegative(t) == Len(t) >= 2 /\ t[1] = "-" /\ IsDecimal(Tail(t))

(***************************************************************************)
(* C5.  The parser maps the count field to the initial live count: absent, *)
(* empty or non-positive gives -1, a positive decimal N gives N.           *)
(***************************************************************************)
C5_Original ==
  \A k \in 1..Len(rule_live) :
    LET t == CountText(argv[k])
    IN  IF ~HasCount(argv[k]) \/ t = <<>> THEN rule_live[k] = -1
        ELSE IF IsDecimal(t) /\ DecimalValue(t) > 0 THEN rule_live[k] = DecimalValue(t)
        ELSE IF IsDecimal(t) \/ IsNegative(t) THEN rule_live[k] = -1
        ELSE TRUE

\* C5 as amended: absent or empty gives -1; a decimal count gives its value,
\* so N gives N, zero gives 0 and -N gives -N
C5_Amended ==
  \A k \in 1..Len(rule_live) :
    LET t == CountText(argv[k])
    IN  IF ~HasCount(argv[k]) \/ t = <<>> THEN rule_live[k] = -1
        ELSE IF IsDecimal(t) THEN rule_live[k] = DecimalValue(t)
        ELSE IF IsNegative(t) THEN rule_live[k] = 0 - DecimalValue(Tail(t))
        ELSE TRUE

\* a rule given with count 0 was parsed, and its initial live count is 0
C5_Witness ==
  /\ Len(rule_live) = 1
  /\ HasCount(argv[1])
  /\ CountText(argv[1]) = <<"0">>
  /\ rule_live[1] = 0

(***************************************************************************)
(* C6.  A rule given with count 0 never substitutes: on every connection   *)
(* and for every chunk it is applied zero times.                           *)
(***************************************************************************)
GivenZero(k) ==
  /\ HasCount(argv[k])
  /\ IsDecimal(CountText(argv[k]))
  /\ DecimalValue(CountText(argv[k])) = 0

C6_NeverApplied ==
  \A k \in 1..rules : GivenZero(k) =>
    \A c \in 1..Len(conns) : Applied(c, k) = 0

\* sed_the_buffer returned from a chunk in which the from of a rule given with
\* count 0 stands, and it made no replacement
C6_Witness ==
  /\ pc = "send"
  /\ changes = 0
  /\ \E k \in 1..rules :
       GivenZero(k) /\ WellFormed(k) /\ \E p \in 0..(siz - 1) : FromAt(k, p)

(***************************************************************************)
(* C7.  On a chunk of siz bytes in which no non-expired rule's from        *)
(* occurs, sed_the_buffer returns siz, the output equals the input byte    *)
(* for byte and no live count changes, whatever chunks came before.        *)
(***************************************************************************)
C7_Original ==
  (/\ pc = "send"
   /\ ~outside
   /\ \A j \in 1..rules : WellFormed(j)
   /\ \A j \in 1..rules :
        live0[j] # 0 => ~\E p \in 0..(siz - 1) : FromAt(j, p))
  => /\ newsize = siz
     /\ b2 = chunk
     /\ curLive = live0

(***************************************************************************)
(* C8.  With all counts unlimited, applying the engine to the output of a  *)
(* first application gives the same bytes: sed(sed(B)) = sed(B).           *)
(***************************************************************************)
AllUnlimited == \A j \in 1..rules : rule_live[j] = -1

\* the chunk is the packet the previous call produced
SecondApplication == pc = "send" /\ AllUnlimited /\ chunk = sent

C8_Original == (SecondApplication /\ ~outside) => b2 = chunk

\* C8 as amended: the second application gives the same bytes when it finds no
\* match (changes stays 0)
C8_Amended == (SecondApplication /\ changes = 0) => (b2 = chunk /\ newsize = siz)

\* the first application replaced something, the second found no match
C8_Witness == SecondApplication /\ changes = 0 /\ sentChanges > 0 /\ ~outside

(***************************************************************************)
(* C9.  Every rule set the parser accepts has only non-empty from          *)
(* patterns, and each pass of sed_the_buffer's loop advances the cursor by *)
(* at least one byte.                                                      *)
(***************************************************************************)
C9_Original ==
  [][/\ pc = "idle" => \A j \in 1..rules : rule[j].fs >= 1
     /\ (pc = "sed" /\ pc' # "ub") => i' >= i + 1]_vars

(***************************************************************************)
(* C10.  shrink_to_binary decodes %XX (hex digits of either case) to the   *)
(* byte of that value and %% to one %, copies every other byte, and the    *)
(* decoded length counts exactly the decoded bytes, in both patterns.      *)
(***************************************************************************)
HexValue ==
  DigitOf @@ ("a" :> 10) @@ ("b" :> 11) @@ ("c" :> 12) @@ ("d" :> 13)
  @@ ("e" :> 14) @@ ("f" :> 15) @@ ("A" :> 10) @@ ("B" :> 11) @@ ("C" :> 12)
  @@ ("D" :> 13) @@ ("E" :> 14) @@ ("F" :> 15)

\* the pattern text t is made of %XX, %% and other characters
RECURSIVE ValidPattern(_)
ValidPattern(t) ==
  IF t = <<>> THEN TRUE
  ELSE IF t[1] # "%" THEN ValidPattern(Tail(t))
  ELSE IF Len(t) >= 2 /\ t[2] = "%" THEN ValidPattern(SubSeq(t, 3, Len(t)))
  ELSE /\ Len(t) >= 3
       /\ t[2] \in DOMAIN HexValue
       /\ t[3] \in DOMAIN HexValue
       /\ ValidPattern(SubSeq(t, 4, Len(t)))

\* the bytes a valid pattern text stands for
RECURSIVE Decoded(_)
Decoded(t) ==
  IF t = <<>> THEN <<>>
  ELSE IF t[1] # "%" THEN <<ord[t[1]]>> \o Decoded(Tail(t))
  ELSE IF t[2] = "%" THEN <<ord["%"]>> \o Decoded(SubSeq(t, 3, Len(t)))
  ELSE <<16 * HexValue[t[2]] + HexValue[t[3]]>> \o Decoded(SubSeq(t, 4, Len(t)))

\* slot k holds the decoding of the two pattern texts of argument k
DecodedRight(k) ==
  /\ rule[k].from = Decoded(FromText(argv[k]))
  /\ rule[k].fs = Len(Decoded(FromText(argv[k])))
  /\ rule[k].to = Decoded(ToText(argv[k]))
  /\ rule[k].ts = Len(Decoded(ToText(argv[k])))

C10_Original ==
  \A k \in 1..Len(rule) :
    (ValidPattern(FromText(argv[k])) /\ ValidPattern(ToText(argv[k])))
    => (pc # "ub" /\ DecodedRight(k))

\* what does hold: the decoding is right whenever r->fs and r->ts were 0 on entry
\* (every rule that got through with lengths that count its bytes)
DecodedRightWhenZeroed ==
  \A k \in 1..rules :
    (ValidPattern(FromText(argv[k])) /\ ValidPattern(ToText(argv[k])) /\ WellFormed(k))
    => DecodedRight(k)

(***************************************************************************)
(* C11.  The rule parser rejects, with a fatal error, every rule string    *)
(* whose first character is not `s` and every rule string with fewer than  *)
(* two '/': when the parse loop is left for the dispatcher, the rule       *)
(* string starts with `s` and has two '/' or more.                         *)
(***************************************************************************)
C11_Original ==
  pc = "idle" =>
    \A k \in 1..Len(argv) :
      /\ argv[k] # <<>>
      /\ argv[k][1] = "s"
      /\ Cardinality(SlashPos(argv[k])) >= 2

(***************************************************************************)
(* The dispatcher: main's select loop (lines 670-862), the tracker list    *)
(* and the sockets.  What a handler does to the bytes of a packet and to   *)
(* the live counts is followed by Spec; here a handler is followed by what *)
(* it does to its tracker entry and to the sockets.                        *)
(*                                                                         *)
(* Time.  The code reads conn->time only in now - conn->time (lines 695    *)
(* and 847), so an entry keeps that difference, idle: conn->time = now     *)
(* makes it 0 and time(&now) after select adds the seconds select took.    *)
(* Time passes in select only.  idle stops counting at IdleCap, and it is   *)
(* kept for udp entries only: for tcp the code never reads conn->time.     *)
(***************************************************************************)
\* seconds (30 in the source)
UDP_TIMEOUT == 2
\* connections and datagrams that come in over the whole run
MaxIncoming == 2
\* enum state_e
UNREPLIED == 0
ESTABLISHED == 1
DISCONNECTED == 2
TIMEOUT == 3

\* the listening socket's descriptor
lsock == 0
\* conn->csa of a tcp entry
NULL == 0

IdleCap == UDP_TIMEOUT + 2

\* the (addr, port) of the clients
Addrs == {1, 2}

\* what getsockname / SO_ORIGINAL_DST give for a new flow
OrigDsts == {[host |-> 1, port |-> 1], [host |-> 2, port |-> 2]}

\* argv[3], argv[4] as getaddrinfo resolves them (host 0: the any address,
\* port 0)
RemoteArgs == {[host |-> h, port |-> p] : h \in {0, 3}, p \in {0, 3}}

is_addr_any(h) == h = 0

\* a dispatcher that forwards to the flow's own destination host always
forward_target_original_host(orig) ==
  [host |-> orig.host, port |-> IF fixedport # 0 THEN fixedport ELSE orig.port]

\* lines 799-809: conho and conpo, the address connect() is called with
forward_target(orig) ==
  [host |-> IF fixedhost # 0 THEN fixedhost ELSE orig.host,
   port |-> IF fixedport # 0 THEN fixedport ELSE orig.port]

\* a freetracker that closes the client socket of every entry
freetracker_closing_csock(conn, op) == op \ {conn.csock, conn.fsock}

\* freetracker (lines 222-231), on the set of open sockets
freetracker(conn, op) ==
  IF conn.csa # NULL THEN op \ {conn.fsock} ELSE op \ {conn.csock, conn.fsock}

\* lines 695-696: remain
remain(conn) ==
  IF UDP_TIMEOUT - conn.idle < 0 THEN 0 ELSE UDP_TIMEOUT - conn.idle

\* a wait that is never given a timeout
arms_never(t, sec, r) == FALSE

\* a wait that takes the timeout of every entry, tcp or udp
arms_always(t, sec, r) == sec > r

\* lines 690-701: the entry's remain replaces the timeout (udp only)
arms(t, sec, r) == ~t /\ sec > r

\* lines 683-707: timeout.tv_sec and ptimeout (armed: ptimeout = &timeout)
\* after the entries from k on
RECURSIVE wait_timeout(_, _, _)
wait_timeout(k, sec, armed) ==
  IF k > Len(connections) THEN [sec |-> sec, armed |-> armed]
  ELSE IF arms(tcp, sec, remain(connections[k]))
       THEN wait_timeout(k + 1, remain(connections[k]), TRUE)
       ELSE wait_timeout(k + 1, sec, armed)

\* lines 682-704: the descriptors FD_SET puts in rd_set
wait_set ==
  {lsock} \cup {connections[k].fsock : k \in 1..Len(connections)}
  \cup (IF tcp THEN {connections[k].csock : k \in 1..Len(connections)} ELSE {})

\* the descriptors of the wait set select finds readable
ready == (readable \cap wait_set) \cup (IF pending # 0 THEN {lsock} ELSE {})

\* a lookup that never finds the entry
same_addr_never(conn, a) == FALSE

\* line 741: the entry is the one of address a
same_addr(conn, a) == conn.csa = a

\* lines 738-747: the first entry of address a from k on (0: conn == NULL)
RECURSIVE lookup(_, _)
lookup(k, a) ==
  IF k > Len(connections) THEN 0
  ELSE IF same_addr(connections[k], a) THEN k ELSE lookup(k + 1, a)

\* a dispatcher that installs the entry whatever connect returned
installs_always(connected) == TRUE

\* lines 819-827: the entry is linked in when connect succeeded
installs(connected) == connected

\* a sweep that only removes the entries that timed out
discarded_on_timeout(st) == st > DISCONNECTED

\* line 851: conn->state >= DISCONNECTED
discarded(st) == st >= DISCONNECTED

\* a walk that marks the entries of any protocol
timed_out_any_protocol(t, idle) == idle >= UDP_TIMEOUT

\* a walk that lets an entry live one second more
timed_out_late(t, idle) == ~t /\ idle > UDP_TIMEOUT

\* line 847: !tcp && ((now - conn->time) >= UDP_TIMEOUT)
timed_out(t, idle) == ~t /\ idle >= UDP_TIMEOUT

\* handlers that take every failed read for a disconnection
read_failed_whatever_errno(o) == o \in {"err", "again"}

\* lines 518, 545: (rd<0) && (errno!=EAGAIN); o is what read() returned:
\* "data" (rd > 0), "eof" (rd = 0), "again" (-1, EAGAIN), "err" (-1, other)
read_failed(o) == o = "err"

\* handlers that send to the client of the first entry of the list
client_of_first(conn) ==
  [sock |-> connections[1].csock, addr |-> connections[1].csa]

\* line 531: sendto(conn->csock, ..., conn->csa, conn->csl), the peer that
\* gets what was read from the server
client_of(conn) == [sock |-> conn.csock, addr |-> conn.csa]

\* line 566: write(conn->fsock, ...), the peer that gets what was read from
\* the client
server_of(conn) == [sock |-> conn.fsock, addr |-> NULL]

\* the values of read()'s result the handlers tell apart
ReadOutcomes == {"data", "eof", "err", "again"}

\* b2server_sed (lines 561-571) on the entry; wok: write() returned > 0
b2server_entry(conn, rd, wok) ==
  IF rd > 0
  THEN [conn EXCEPT !.idle = 0, !.state = IF wok THEN @ ELSE DISCONNECTED]
  ELSE conn

\* client2server_sed (lines 542-556) on the entry; o: what read() returned
client2server_entry(conn, o, wok) ==
  b2server_entry(IF read_failed(o) \/ o = "eof"
                 THEN [conn EXCEPT !.state = DISCONNECTED] ELSE conn,
                 IF o = "data" THEN 1 ELSE IF o = "eof" THEN 0 ELSE -1, wok)

\* server2client_sed (lines 515-538) on the entry
server2client_entry(conn, o, wok) ==
  IF o = "data"
  THEN [conn EXCEPT !.idle = 0, !.state = IF wok THEN ESTABLISHED ELSE DISCONNECTED]
  ELSE IF read_failed(o) \/ o = "eof" THEN [conn EXCEPT !.state = DISCONNECTED]
  ELSE conn

\* clean_socks' loop (lines 239-243) on the set of open sockets
RECURSIVE close_all(_, _)
close_all(list, op) ==
  IF list = <<>> THEN op ELSE close_all(Tail(list), freetracker(Head(list), op))

\* the list without its k-th entry (lines 853-855)
unlink(list, k) == SubSeq(list, 1, k - 1) \o SubSeq(list, k + 1, Len(list))

\* where the loop goes after the listener branch: the walk, or the loop test
\* when the list is empty
walk_from(list) == IF list = <<>> THEN "while" ELSE "walk"

engineVars == <<argv, rules, rule, rule_live, conns, buf, siz, i, newsize,
                changes, b2, cur, dir, nreads, live0, outside, applied, sent,
                sentChanges>>

\* main before the loop (lines 581-668), the rules left aside: protocol,
\* remote host and port resolved (lines 633-645), the listening socket bound
InitLoop ==
  /\ pc = "while"
  /\ argv = <<>>
  /\ rules = 0
  /\ rule = <<>>
  /\ rule_live = <<>>
  /\ conns = <<>>
  /\ buf = [k \in 1..MAX_BUF |-> 0]
  /\ siz = 0
  /\ i = 0
  /\ newsize = 0
  /\ changes = 0
  /\ b2 = <<>>
  /\ cur = 0
  /\ dir = "c2s"
  /\ nreads = 0
  /\ live0 = <<>>
  /\ outside = FALSE
  /\ applied = <<>>
  /\ sent = <<>>
  /\ sentChanges = 0
  /\ tcp \in BOOLEAN
  /\ \E r \in RemoteArgs :
       /\ fixedport = r.port
       /\ fixedhost = IF is_addr_any(r.host) THEN 0 ELSE r.host
  /\ connections = <<>>
  /\ stop = 0
  /\ intr = FALSE
  /\ rd_set = {}
  /\ readable = {}
  /\ pending = 0
  /\ nextfd = 1
  /\ open = {lsock}
  /\ widx = 0
  /\ nincoming = 0
  /\ hist = NoHist

\* the history of a step that is neither the listener branch nor a handler
quiet == [NoHist EXCEPT !.failed = hist.failed]

\* lines 670-681: while (!stop), and FD_ZERO(&rd_set) when the loop goes on
LoopTest ==
  /\ pc = "while"
  /\ pc' = IF stop # 0 THEN "clean" ELSE "build"
  /\ rd_set' = {}
  /\ hist' = quiet
  /\ UNCHANGED <<tcp, fixedhost, fixedport, connections, stop, intr,
                 readable, pending, nextfd, open, widx, nincoming>>
  /\ UNCHANGED engineVars

\* lines 680-710: the wait set and the timeout are built and select is entered
SelectEnter ==
  /\ pc = "build"
  /\ pc' = "select"
  /\ intr' = FALSE
  /\ UNCHANGED <<tcp, fixedhost, fixedport, connections, stop, rd_set, readable,
                 pending, nextfd, open, widx, nincoming, hist>>
  /\ UNCHANGED engineVars

\* sig_int (lines 574-578), at any point of the loop where the process runs
\* or waits in select; a select that is blocked fails with EINTR (sa_flags =
\* 0, line 664).  A signal that interrupts a blocked connect() or write()
\* makes the call return, and the handler that goes on does not read stop:
\* this is the call returning, followed by sig_int.
sig_int ==
  /\ pc \in {"while", "build", "select", "listener", "walk"}
  /\ stop' = 1
  /\ intr' = (intr \/ pc = "select")
  /\ UNCHANGED <<pc, tcp, fixedhost, fixedport, connections, rd_set, readable,
                 pending, nextfd, open, widx, nincoming, hist>>
  /\ UNCHANGED engineVars

\* the seconds a call of select can last: up to the timeout when one is armed;
\* without a timeout any time, of which the model draws a long one
waits(t) == IF t.armed THEN 0..t.sec ELSE {IdleCap}

\* lines 710-726: select returns sel after d seconds, time(&now), the poll
\* of stop, the break on sel < 0
select_returns(d, sel, set) ==
  /\ rd_set' = set
  /\ connections' =
       [k \in 1..Len(connections) |->
          [connections[k] EXCEPT
             !.idle = IF @ + d > IdleCap THEN IdleCap ELSE @ + d]]
  /\ pc' = IF stop # 0 \/ sel < 0 THEN "clean"
           ELSE IF lsock \in set THEN "listener"
           ELSE walk_from(connections)
  /\ widx' = 1
  /\ intr' = FALSE
  /\ hist' = quiet
  /\ UNCHANGED <<tcp, fixedhost, fixedport, stop, readable, pending, nextfd,
                 open, nincoming>>
  /\ UNCHANGED engineVars

\* select returns for one of the reasons it is called for: a signal handler
\* ran (EINTR), a socket of the wait set is readable, or the timeout ran out
SelectReturn ==
  /\ pc = "select"
  /\ LET t == wait_timeout(1, UDP_TIMEOUT + 1, FALSE)
     IN  \E d \in waits(t) :
           \/ intr /\ select_returns(d, -1, {})
           \/ ~intr /\ ready # {} /\ select_returns(d, 1, ready)
           \/ ~intr /\ ready = {} /\ t.armed /\ d = t.sec
              /\ select_returns(d, 0, {})

\* environment: select itself fails (sel < 0) though no signal was handled,
\* for want of kernel memory for instance (ENOMEM)
SelectFails ==
  /\ pc = "select"
  /\ ~intr
  /\ select_returns(0, -1, {})

\* lines 727-833: the listening socket is readable.  got: accept / recvfrom
\* succeeded; len: the datagram's length; mem: the malloc calls of a new
\* tracker succeeded (error() otherwise: clean_socks and exit(2), lines
\* 297-302); orig: the destination getsockname gives; cok: connect succeeded;
\* wok: write succeeded
listener_branch ==
  /\ \E got \in BOOLEAN, len \in {0, 1}, mem \in BOOLEAN, orig \in OrigDsts,
        cok \in BOOLEAN, wok \in BOOLEAN :
       LET rd == IF tcp THEN -1 ELSE IF got THEN len ELSE -1
           found == IF ~tcp /\ rd >= 0 THEN lookup(1, pending) ELSE 0
           new == got /\ (tcp \/ found = 0)
           csock == IF tcp THEN nextfd ELSE lsock
           fsock == IF tcp THEN nextfd + 1 ELSE nextfd
           fresh == [csa |-> IF tcp THEN NULL ELSE pending,
                     csock |-> csock, fsock |-> fsock, idle |-> 0,
                     state |-> IF tcp THEN ESTABLISHED ELSE UNREPLIED]
           installed == new /\ installs(cok)
           list1 == IF installed THEN <<fresh>> \o connections ELSE connections
           conn == IF new THEN (IF installed THEN 1 ELSE 0) ELSE found
           forwards == rd >= 0 /\ conn # 0
       IN  \* the results that are not looked at are not drawn twice
           /\ got \/ (len = 0 /\ mem /\ cok /\ wok)
           /\ new \/ (mem /\ cok /\ orig = CHOOSE o \in OrigDsts : TRUE)
           /\ mem \/ (cok /\ wok)
           /\ (rd > 0 /\ (~new \/ cok)) \/ wok
           /\ IF new /\ ~mem
              THEN /\ connections' = <<>>
                   /\ open' = close_all(connections, (open \cup {csock}) \ {lsock})
                   /\ nextfd' = IF tcp THEN nextfd + 1 ELSE nextfd
                   /\ hist' = [hist EXCEPT !.listen = "nomem"]
                   /\ pc' = "exit2"
              ELSE
              /\ connections' =
                   IF forwards
                   THEN [list1 EXCEPT ![conn] = b2server_entry(@, rd, wok)]
                   ELSE list1
              /\ open' = IF ~new THEN open
                         ELSE IF installed THEN open \cup {csock, fsock}
                         ELSE freetracker(fresh, open \cup {csock, fsock})
              /\ nextfd' = IF ~new THEN nextfd
                           ELSE IF tcp THEN nextfd + 2 ELSE nextfd + 1
              /\ hist' = [hist EXCEPT
                            !.listen = IF ~got THEN "error"
                                       ELSE IF ~new THEN "found"
                                       ELSE IF cok THEN "ok" ELSE "fail",
                            !.wrote = (forwards /\ rd > 0),
                            !.failed = (@ \/ (new /\ ~cok)),
                            !.orig = IF new THEN orig ELSE NoAddr,
                            !.peer = IF new THEN forward_target(orig) ELSE NoAddr,
                            !.sends = IF forwards /\ rd > 0
                                      THEN {[src |-> [sock |-> lsock, addr |-> pending],
                                             dst |-> server_of(list1[conn])]}
                                      ELSE {}]
              /\ pc' = walk_from(connections')
  /\ pending' = 0
  /\ widx' = 1
  /\ UNCHANGED <<tcp, fixedhost, fixedport, intr, rd_set, readable, nincoming>>
  /\ UNCHANGED engineVars

\* the listener branch when connect() returns at once
Listener ==
  /\ pc = "listener"
  /\ listener_branch
  /\ UNCHANGED stop

\* lines 837-861: one pass of the walk, on the entry conn.  o1, w1: what
\* read() and write() return in client2server_sed; o2, w2: in
\* server2client_sed
walk_entry ==
  /\ \E o1 \in ReadOutcomes, o2 \in ReadOutcomes, w1 \in BOOLEAN, w2 \in BOOLEAN :
       LET conn == connections[widx]
           c2s == tcp /\ conn.csock \in rd_set
           s2c == conn.fsock \in rd_set
           a == IF c2s THEN client2server_entry(conn, o1, w1) ELSE conn
           b == IF s2c THEN server2client_entry(a, o2, w2) ELSE a
           c == IF timed_out(tcp, b.idle) THEN [b EXCEPT !.state = TIMEOUT] ELSE b
           gone == discarded(c.state)
           list == IF gone THEN unlink(connections, widx)
                   ELSE [connections EXCEPT ![widx] = c]
           next == IF gone THEN widx ELSE widx + 1
           wrote == (IF c2s /\ o1 = "data" THEN {conn.csock} ELSE {})
                    \cup (IF s2c /\ o2 = "data" THEN {conn.fsock} ELSE {})
           taken == wrote
                    \cup (IF c2s /\ o1 = "again" THEN {conn.csock} ELSE {})
                    \cup (IF s2c /\ o2 = "again" THEN {conn.fsock} ELSE {})
       IN  /\ c2s \/ (o1 = "data" /\ w1)
           /\ s2c \/ (o2 = "data" /\ w2)
           /\ o1 = "data" \/ w1
           /\ o2 = "data" \/ w2
           /\ connections' = list
           /\ open' = IF gone THEN freetracker(c, open) ELSE open
           /\ readable' = (readable \ taken) \cap open'
           /\ widx' = next
           /\ pc' = IF next > Len(list) THEN "while" ELSE "walk"
           /\ hist' = [quiet EXCEPT
                         !.wrote = (wrote # {}),
                         !.swept = gone,
                         !.c2s = IF c2s THEN o1 ELSE "none",
                         !.s2c = IF s2c THEN o2 ELSE "none",
                         !.dead = \/ conn.state = DISCONNECTED
                                  \/ c2s /\ a.state = DISCONNECTED
                                  \/ s2c /\ b.state = DISCONNECTED,
                         !.timedout = (c.state = TIMEOUT),
                         !.sends =
                           (IF c2s /\ o1 = "data"
                            THEN {[src |-> [sock |-> conn.csock, addr |-> NULL],
                                   dst |-> server_of(conn)]}
                            ELSE {})
                           \cup
                           (IF s2c /\ o2 = "data"
                            THEN {[src |-> [sock |-> conn.fsock, addr |-> NULL],
                                   dst |-> client_of(conn)]}
                            ELSE {})]
  /\ UNCHANGED <<tcp, fixedhost, fixedport, intr, rd_set, pending, nextfd,
                 nincoming>>
  /\ UNCHANGED engineVars

\* the visit of an entry when the writes of its handlers return at once
WalkEntry ==
  /\ pc = "walk"
  /\ walk_entry
  /\ UNCHANGED stop

\* lines 864-865: clean_socks() (lines 235-244) and exit(0)
clean_socks ==
  /\ pc = "clean"
  /\ open' = close_all(connections, open \ {lsock})
  /\ connections' = <<>>
  /\ readable' = {}
  /\ pending' = 0
  /\ rd_set' = {}
  /\ pc' = "exit0"
  /\ hist' = quiet
  /\ UNCHANGED <<tcp, fixedhost, fixedport, stop, intr, nextfd, widx, nincoming>>
  /\ UNCHANGED engineVars

\* environment: a client connects (tcp) or a datagram of client a arrives (udp)
\* while the dispatcher waits (what comes while a handler runs is seen by
\* the next select, just as if it came then)
Incoming(a) ==
  /\ pc = "select"
  /\ pending = 0
  /\ nincoming < MaxIncoming
  /\ pending' = a
  /\ nincoming' = nincoming + 1
  /\ UNCHANGED <<pc, tcp, fixedhost, fixedport, connections, stop, intr, rd_set,
                 readable, nextfd, open, widx, hist>>
  /\ UNCHANGED engineVars

\* environment: bytes, an end of file or an error come up on a socket of a flow
\* while the dispatcher waits
DataReady(fd) ==
  /\ pc = "select"
  /\ fd \in wait_set \ {lsock}
  /\ fd \notin readable
  /\ readable' = readable \cup {fd}
  /\ UNCHANGED <<pc, tcp, fixedhost, fixedport, connections, stop, intr, rd_set,
                 pending, nextfd, open, widx, nincoming, hist>>
  /\ UNCHANGED engineVars

\* The sockets are in blocking mode (nothing sets O_NONBLOCK; line 431 is
\* commented out).  connect() on a tcp socket (line 819) does not return
\* before the remote end answers or the kernel gives up.
ConnectBlocks ==
  /\ pc = "listener"
  /\ tcp
  /\ pending # 0
  /\ pc' = "blocked_listener"
  /\ UNCHANGED <<tcp, fixedhost, fixedport, connections, stop, intr, rd_set,
                 readable, pending, nextfd, open, widx, nincoming, hist>>
  /\ UNCHANGED engineVars

\* the remote end answered, or the kernel's connect timeout ran out: the
\* listener branch goes on
ConnectReturns ==
  /\ pc = "blocked_listener"
  /\ listener_branch
  /\ UNCHANGED stop

\* write() and sendto() of a handler (lines 531, 566) do not return while the
\* peer's receive window and the socket's send buffer are full
WriteBlocks ==
  /\ pc = "walk"
  /\ tcp
  /\ connections[widx].csock \in rd_set \/ connections[widx].fsock \in rd_set
  /\ pc' = "blocked_walk"
  /\ UNCHANGED <<tcp, fixedhost, fixedport, connections, stop, intr, rd_set,
                 readable, pending, nextfd, open, widx, nincoming, hist>>
  /\ UNCHANGED engineVars

\* environment: the peer reads what it was sent, or resets the connection:
\* the visit of the entry goes on
WriteReturns ==
  /\ pc = "blocked_walk"
  /\ walk_entry
  /\ UNCHANGED stop

\* the steps of the process
Dispatcher ==
  \/ LoopTest
  \/ SelectEnter
  \/ SelectReturn
  \/ Listener
  \/ WalkEntry
  \/ clean_socks

NextLoop ==
  \/ Dispatcher
  \/ sig_int
  \/ \E a \in Addrs : Incoming(a)
  \/ \E fd \in 1..(2 * MaxIncoming) : DataReady(fd)
  \/ SelectFails
  \/ ConnectBlocks
  \/ ConnectReturns
  \/ WriteBlocks
  \/ WriteReturns

SpecLoop == InitLoop /\ [][NextLoop]_vars

\* the process is scheduled: a step it can take is taken, and a connect()
\* returns in the end.  Nothing is assumed of the peers and of the signal.
SpecLoopFair == SpecLoop /\ WF_vars(Dispatcher) /\ WF_vars(ConnectReturns)

(***************************************************************************)
(* Vocabulary of the dispatcher's properties.                              *)
(***************************************************************************)
\* client address a has a tracker entry
Tracked(a) == \E k \in 1..Len(connections) : connections[k].csa = a

NoTwoSameAddr ==
  \A j, k \in 1..Len(connections) :
    j # k => connections[j].csa # connections[k].csa

\* the listener step leaves the entries, their sockets and the open sockets
\* as they are
SameEntries ==
  /\ Len(connections') = Len(connections)
  /\ \A k \in 1..Len(connections) :
       /\ connections'[k].csa = connections[k].csa
       /\ connections'[k].csock = connections[k].csock
       /\ connections'[k].fsock = connections[k].fsock
  /\ nextfd' = nextfd
  /\ open' = open

\* the listener step links in one new entry, for the address of the datagram
OneNewEntry ==
  /\ Len(connections') = Len(connections) + 1
  /\ connections'[1].csa = pending
  /\ Tail(connections') = connections

\* a datagram was received by this step of the udp listener branch
DatagramStep ==
  /\ ~tcp
  /\ pc = "listener"
  /\ pc' \notin {"listener", "exit2"}
  /\ hist'.listen # "error"

\* the loop is running
LoopRuns ==
  pc \in {"while", "build", "select", "listener", "walk", "blocked_listener",
          "blocked_walk"}

\* the sockets of the tracker entries and the listening socket
TrackerSockets ==
  {lsock} \cup {connections[k].fsock : k \in 1..Len(connections)}
  \cup {connections[k].csock : k \in 1..Len(connections)}

(***************************************************************************)
(* C12.  UDP flow identity: no two tracker entries have the same client    *)
(* address; a datagram from an address that has an entry is handled by     *)
(* that entry (no new entry, no new forward socket); a datagram from an    *)
(* address without entry creates exactly one new entry for it.             *)
(***************************************************************************)
C12_Original ==
  [][~tcp =>
       /\ NoTwoSameAddr'
       /\ DatagramStep =>
            IF Tracked(pending)
            THEN hist'.listen = "found" /\ SameEntries
            ELSE OneNewEntry]_vars

\* C12 as amended: a datagram from an address without entry creates exactly
\* one new entry for it when the connect of its forward socket succeeds, and
\* none when it fails
C12_Amended ==
  [][~tcp =>
       /\ NoTwoSameAddr'
       /\ DatagramStep =>
            IF Tracked(pending)
            THEN hist'.listen = "found" /\ SameEntries
            ELSE IF hist'.listen = "fail"
                 THEN connections' = connections /\ open' = open
                 ELSE OneNewEntry]_vars

\* a datagram of a tracked client was handled by its entry and forwarded: one
\* entry, and one forward socket made so far
C12_Witness ==
  /\ ~tcp
  /\ hist.listen = "found"
  /\ hist.wrote
  /\ Len(connections) = 1
  /\ nextfd = 2

(***************************************************************************)
(* C13.  At every call of select the tracker holds no entry whose state is *)
(* DISCONNECTED or TIMEOUT: such an entry is unlinked by the sweep and its *)
(* forward socket and, for tcp, its client socket are closed before the    *)
(* next wait (the open sockets are those of the tracked entries and the    *)
(* listening socket).                                                      *)
(***************************************************************************)
C13_SweptBeforeWait ==
  pc \in {"while", "build", "select"} =>
    /\ \A k \in 1..Len(connections) :
         connections[k].state \in {UNREPLIED, ESTABLISHED}
    /\ open = TrackerSockets

\* the sweep has just unlinked the last entry of the walk
C13_Witness == pc = "while" /\ hist.swept /\ nextfd > 1

(***************************************************************************)
(* C14.  The listening socket is open in every state in which the loop is  *)
(* running: no destruction of an entry closes it, the udp entries (whose   *)
(* csock is the listening socket) included.                                *)
(***************************************************************************)
C14_ListenerOpen == LoopRuns => lsock \in open

\* a udp entry was destroyed by the sweep of a loop that had a failed connect
\* before, and the loop runs
C14_Witness == ~tcp /\ hist.swept /\ hist.failed /\ LoopRuns

(***************************************************************************)
(* C15.  A udp entry without activity is removed no later than             *)
(* UDP_TIMEOUT + 1 seconds after its last activity, whatever makes select  *)
(* return in between: no tracked entry is idle for longer.                 *)
(***************************************************************************)
C15_EvictedInTime ==
  ~tcp => \A k \in 1..Len(connections) : connections[k].idle <= UDP_TIMEOUT + 1

\* select timed out (nothing was readable) and the walk, now finished, removed
\* an entry, another one, younger, staying
C15_Witness ==
  /\ ~tcp
  /\ pc = "while"
  /\ hist.swept
  /\ rd_set = {}
  /\ Len(connections) = 1
  /\ connections[1].idle > 0

(***************************************************************************)
(* C16.  Idle-loop soundness: the dispatcher leaves select only because a  *)
(* socket of the wait set is readable, because a signal arrived or because *)
(* an armed timeout ran out (udp only: an entry has then been idle for     *)
(* UDP_TIMEOUT); with tcp flows open and nothing readable it stays in      *)
(* select.                                                                 *)
(***************************************************************************)
C16_WaitSuspends ==
  [][(pc = "select" /\ pc' # "select") =>
       \/ stop' # 0
       \/ pc' = "clean"
       \/ rd_set' # {} /\ rd_set' \subseteq ready
       \/ /\ ~tcp
          /\ \E k \in 1..Len(connections') : connections'[k].idle >= UDP_TIMEOUT]_vars

\* the dispatcher is in select with a tcp flow open, nothing to read and no
\* signal
C16_Witness ==
  /\ tcp
  /\ pc = "select"
  /\ connections # <<>>
  /\ ready = {}
  /\ stop = 0

(***************************************************************************)
(* C17.  Cancellation: once sig_int has set stop, at whatever point of the *)
(* loop, the dispatcher eventually leaves the loop without further socket  *)
(* activity, closes the sockets and exits with status 0.                   *)
(***************************************************************************)
C17_Original == (stop # 0) ~> (pc = "exit0" /\ open = {})

(***************************************************************************)
(* C18.  Flow isolation of rule lifetimes: applying rules on a connection  *)
(* changes only that connection's live counts; rule_live and the live      *)
(* counts of every other connection stay, and a new connection starts with *)
(* live counts equal to rule_live.                                         *)
(***************************************************************************)
C18_Isolation ==
  [][/\ pc # "parse" => rule_live' = rule_live
     /\ \A c \in 1..Len(conns) : (pc # "sed" \/ c # cur) => conns'[c] = conns[c]
     /\ Len(conns') > Len(conns) =>
          conns'[Len(conns')].live = SubSeq(rule_live, 1, rules)]_vars

\* the first connection has used up applications of a rule, the second has
\* the initial counts
C18_Witness ==
  /\ Len(conns) = 2
  /\ rules >= 1
  /\ Applied(1, 1) > 0
  /\ conns[1].live # conns[2].live
  /\ conns[2].live = SubSeq(rule_live, 1, rules)

(***************************************************************************)
(* C19.  When the connect of a new flow's forward socket fails, no tracker *)
(* entry is installed, the sockets made for the flow are closed (the tcp   *)
(* client socket included), nothing is forwarded, and the dispatcher keeps *)
(* running with the listening socket open.                                 *)
(***************************************************************************)
C19_ConnectFailure ==
  [][(pc \in {"listener", "blocked_listener"} /\ hist'.listen = "fail") =>
       /\ connections' = connections
       /\ open' = open
       /\ \A fd \in nextfd..(nextfd' - 1) : fd \notin open'
       /\ nextfd' > nextfd
       /\ ~hist'.wrote
       /\ pc' \in {"while", "walk"}
       /\ lsock \in open']_vars

\* after a connect that failed, a later connection was accepted and its entry
\* installed
C19_Witness ==
  /\ tcp
  /\ hist.failed
  /\ hist.listen = "ok"
  /\ connections # <<>>
  /\ connections[1].csock \in open

(***************************************************************************)
(* C20.  Forwarding target of a new flow: the host is the fixed host when  *)
(* one is configured and the flow's original destination host otherwise;   *)
(* the port is the fixed port when one is configured and the original      *)
(* destination port otherwise; the two choices are independent.            *)
(***************************************************************************)
C20_ForwardTarget ==
  hist.listen \in {"ok", "fail"} =>
    /\ fixedhost # 0 => hist.peer.host = fixedhost
    /\ fixedhost = 0 => hist.peer.host = hist.orig.host
    /\ fixedport # 0 => hist.peer.port = fixedport
    /\ fixedport = 0 => hist.peer.port = hist.orig.port

\* a flow of the mode "fixed host only": connect was called with the fixed
\* host and the flow's own destination port
C20_Witness ==
  /\ hist.listen = "ok"
  /\ fixedhost # 0
  /\ fixedport = 0
  /\ hist.peer.host = fixedhost
  /\ hist.peer.port = hist.orig.port
  /\ hist.orig.host # fixedhost

(***************************************************************************)
(* C26.  The result of sed_the_buffer on a chunk of siz bytes depends on   *)
(* the first siz bytes of buf, the rules and the live counts only: no      *)
(* match uses a byte at index >= siz, so what earlier chunks left in buf   *)
(* makes no difference.  Stated on the passes: a rule that is applied at   *)
(* cursor i has its from inside the chunk, i + fs <= siz.                  *)
(***************************************************************************)
\* the rule the pass from this state to the next applies, 0 when it applies none
AppliedNow ==
  IF \E j \in 1..rules : applied'[cur][dir][j] > applied[cur][dir][j]
  THEN CHOOSE j \in 1..rules : applied'[cur][dir][j] > applied[cur][dir][j]
  ELSE 0

C26_Original ==
  [][(pc = "sed" /\ AppliedNow # 0) => i + rule[AppliedNow].fs <= siz]_vars

(***************************************************************************)
(* C27.  For every chunk of at most MAX_BUF bytes and every accepted rule  *)
(* set, sed_the_buffer never writes b2 at an index >= MAX_BUF: the output  *)
(* length stays <= MAX_BUF at every step, also when a replacement is       *)
(* longer than its pattern.                                                *)
(***************************************************************************)
\* the pass from this state to the next writes past the end of b2 (every
\* rule's fs being the length of the bytes written to its from, the pass
\* does not stop on a comparison)
b2_overrun ==
  /\ pc = "sed"
  /\ pc' = "ub"
  /\ \A j \in 1..rules : rule[j].fs <= Len(rule[j].from)

C27_Original == [][~b2_overrun]_vars

(***************************************************************************)
(* C21.  Exit status: the process exits with status 0 only when the loop   *)
(* ended because the stop flag was observed; every irrecoverable runtime   *)
(* error, a failure of select included, ends the process with status 2.    *)
(***************************************************************************)
C21_Original == pc = "exit0" => stop # 0

(***************************************************************************)
(* C22.  TCP has no idle timeout: in tcp mode no entry ever gets the state *)
(* TIMEOUT, however long it is idle, and select is never given a timeout.  *)
(***************************************************************************)
C22_NoTcpTimeout ==
  tcp =>
    /\ ~hist.timedout
    /\ \A k \in 1..Len(connections) : connections[k].state # TIMEOUT
    /\ pc = "select" => ~wait_timeout(1, UDP_TIMEOUT + 1, FALSE).armed

\* a tcp entry that has been idle for UDP_TIMEOUT or more was visited by the
\* walk and is in the wait set of the next select
C22_Witness ==
  /\ tcp
  /\ pc = "select"
  /\ connections # <<>>
  /\ connections[1].idle >= UDP_TIMEOUT
  /\ connections[1].state = ESTABLISHED

(***************************************************************************)
(* C23.  DISCONNECTED is absorbing: once a handler has set an entry's      *)
(* state to DISCONNECTED during an iteration, no later handler of the same *)
(* iteration sets it back to ESTABLISHED, and the entry is removed by that *)
(* iteration's walk; a tcp entry whose client reached end of file is       *)
(* removed even when its forward socket is readable too.                   *)
(***************************************************************************)
C23_Original == hist.dead => hist.swept

(***************************************************************************)
(* C24.  Flow routing: what is read from an entry's forward socket is sent *)
(* to that entry's client only (tcp: its accepted socket; udp: the         *)
(* listening socket with the entry's client address), and what a client    *)
(* sent is written to the forward socket of that client's own entry only.  *)
(***************************************************************************)
\* the payload m went between the two peers of the entry e
Flow(e, m) ==
  \/ /\ m.src = [sock |-> e.fsock, addr |-> NULL]
     /\ m.dst = [sock |-> e.csock, addr |-> e.csa]
  \/ /\ m.src = [sock |-> e.csock, addr |-> e.csa]
     /\ m.dst = [sock |-> e.fsock, addr |-> NULL]

\* the step is a visit of the walk
WalkStep ==
  /\ pc \in {"walk", "blocked_walk"}
  /\ widx' # widx \/ connections' # connections

\* the step is the listener branch
ListenerStep ==
  /\ pc \in {"listener", "blocked_listener"}
  /\ pc' \notin {"listener", "blocked_listener"}

C24_FlowRouting ==
  [][/\ WalkStep =>
          \A m \in hist'.sends :
            /\ Flow(connections[widx], m)
            /\ \A k \in 1..Len(connections) : Flow(connections[k], m) => k = widx
     /\ ListenerStep =>
          \A m \in hist'.sends :
            /\ m.src.addr = pending
            /\ Cardinality({k \in 1..Len(connections') :
                              Flow(connections'[k], m)}) = 1]_vars

\* with two udp flows tracked, the answer of the second flow's server went to
\* the second flow's client
C24_Witness ==
  /\ ~tcp
  /\ Len(connections) = 2
  /\ connections[1].csa # connections[2].csa
  /\ \E m \in hist.sends :
       /\ m.src.sock = connections[2].fsock
       /\ m.dst.addr = connections[2].csa

(***************************************************************************)
(* C25.  A read that fails with EAGAIN in client2server_sed or             *)
(* server2client_sed leaves the entry unchanged: state and last activity   *)
(* keep their values, nothing is written to the peer, and the entry stays  *)
(* in the tracker, its sockets in the next wait set.                       *)
(***************************************************************************)
\* a visit of the walk all of whose reads failed with EAGAIN
AgainOnly ==
  /\ WalkStep
  /\ hist'.c2s \in {"none", "again"}
  /\ hist'.s2c \in {"none", "again"}
  /\ hist'.c2s = "again" \/ hist'.s2c = "again"

C28_Original ==
  ~tcp =>
    /\ hist.listen \in {"found", "ok"} => Cardinality(hist.sends) = 1
    /\ hist.s2c \in {"data", "eof"} => Cardinality(hist.sends) = 1
    /\ hist.s2c = "eof" => ~hist.dead

(***************************************************************************)
(* C29.  In udp mode, at every call of select with at least one tracker    *)
(* entry the timeout is armed and lies between 1 and UDP_TIMEOUT seconds:  *)
(* every entry that survived the walk has been idle for less than          *)
(* UDP_TIMEOUT, so select is never called with a zero timeout.             *)
(***************************************************************************)
C29_TimeoutArmed ==
  (~tcp /\ pc = "select" /\ connections # <<>>) =>
    /\ wait_timeout(1, UDP_TIMEOUT + 1, FALSE).armed
    /\ wait_timeout(1, UDP_TIMEOUT + 1, FALSE).sec \in 1..UDP_TIMEOUT
    /\ \A k \in 1..Len(connections) : connections[k].idle < UDP_TIMEOUT

\* select is called with two udp entries, the older one a second before its
\* eviction
C29_Witness ==
  /\ ~tcp
  /\ pc = "select"
  /\ Len(connections) = 2
  /\ connections[2].idle = UDP_TIMEOUT - 1
  /\ connections[1].idle = 0
  /\ wait_timeout(1, UDP_TIMEOUT + 1, FALSE).sec = 1

(***************************************************************************)
(* C30.  The readiness wait is the only point where the dispatcher can     *)
(* suspend: no handler and no connection set-up step blocks the loop, so   *)
(* once the listener branch or the walk has started the dispatcher gets    *)
(* to the next select (or to the exit) whatever the peers do.              *)
(***************************************************************************)
C30_Original ==
  (pc \in {"listener", "walk"}) ~> (pc \in {"select", "exit0", "exit2"})

====
